---- MODULE Spec2Model ----
(***************************************************************************)
(* State-machine model of internal/storage (SQLiteStore): the four         *)
(* relational tables of schema.sql and the vec0 table vec_embeddings, the  *)
(* single-row saves, the range reads, the SaveMetrics transaction, the     *)
(* vector search and the handle's lifecycle, as implemented in sqlite.go.  *)
(*                                                                         *)
(* The package-level registry of internal/category is modelled beside it.  *)
(*                                                                         *)
(* Go values are modelled as records:                                      *)
(*   time.Time  = [day, sec, nano]   (calendar day, second of the day,     *)
(*                                    sub-second part)                     *)
(*   TEXT date  = day number         (what Format(time.DateOnly) keeps)    *)
(*   TEXT stamp = [day, sec]         (what Format(time.RFC3339) keeps)     *)
(***************************************************************************)
EXTENDS Integers, Sequences, FiniteSets, TLC

VARIABLES entries, findings, summaries, metrics, vec_embeddings, db, uuids,
          tx, calls, registry, all, ret

vars == <<entries, findings, summaries, metrics, vec_embeddings, db, uuids,
          tx, calls, registry, all, ret>>

-----------------------------------------------------------------------------
(* Bounds of the model *)

MaxDay == 2
MaxEntries == 2
MaxFindings == 2
MaxSummaries == 2
MaxMetrics == 2
MaxRows == 3
MaxUUID == 2
MaxBatch == 2
MaxEmbeddings == 2
NumTx == 1

-----------------------------------------------------------------------------
(* Go values *)

ZeroTime == [day |-> 0, sec |-> 0, nano |-> 0]

IsZero(t) == t = ZeroTime

date(d) == [day |-> d, sec |-> 0, nano |-> 0]

Dates == {date(d) : d \in 1..MaxDay}

WholeSecond == [day |-> 1, sec |-> 1, nano |-> 0]

SubSecond == [day |-> 1, sec |-> 1, nano |-> 1]

Timestamps == {ZeroTime, WholeSecond, SubSecond}

Clock == {[day |-> MaxDay, sec |-> 0, nano |-> 1]}

Categories == {"sleep", "food"}

FormatDateOnly(t) == t.day

ParseDateOnly(s) == [day |-> s, sec |-> 0, nano |-> 0]

\* (variant: the timestamp written with the date-only layout)
FormatStampDateOnly(t) == [day |-> t.day, sec |-> 0]

FormatRFC3339(t) == [day |-> t.day, sec |-> t.sec]

\* A time in the year 10000 (the model's days 0..MaxDay are days of years
\* that take four digits; the day after them stands for one that takes five).
FiveDigitYear == [day |-> MaxDay + 1, sec |-> 1, nano |-> 0]

\* time.Parse(time.RFC3339, s): the layout takes a year of four digits, so
\* the text Format wrote for a year beyond 9999 is refused, and the result is
\* then the zero Time and an error.
timeParseRFC3339(s) ==
  IF s.day > MaxDay
    THEN [t |-> ZeroTime, err |-> "parse"]
    ELSE [t |-> [day |-> s.day, sec |-> s.sec, nano |-> 0], err |-> "nil"]

\* e.CreatedAt, _ = time.Parse(time.RFC3339, createdAt): the error is dropped.
ParseRFC3339(s) == timeParseRFC3339(s).t

\* A Go []string is [isNil, elems]; its JSON text is a sequence of tokens.
NilSlice == [isNil |-> TRUE, elems |-> <<>>]

Slice(elems) == [isNil |-> FALSE, elems |-> elems]

jsonMarshal(s) == IF s.isNil THEN <<"null">> ELSE <<"[">> \o s.elems \o <<"]">>

jsonUnmarshal(text) ==
  IF text = <<"null">> THEN NilSlice ELSE Slice(SubSeq(text, 2, Len(text) - 1))

UUID(n) == "u" \o ToString(n)

Ids(table) == {r.id : r \in table}

Range(s) == {s[i] : i \in DOMAIN s}

Tables == [entries |-> entries, findings |-> findings,
           summaries |-> summaries, metrics |-> metrics,
           vec_embeddings |-> vec_embeddings]

Rows == Cardinality(entries) + Cardinality(findings)
        + Cardinality(summaries) + Cardinality(metrics)

Procs == 1..NumTx

WriteLocked == \E p \in Procs : tx[p].locked

IdleTx == [pc |-> "idle", locked |-> FALSE, entryID |-> "", batch |-> <<>>,
           now |-> ZeroTime, rows |-> <<>>]

\* The two callers that run SaveEntry concurrently, and a caller with no call.
Callers == {"first", "second"}

IdleCall == [pc |-> "idle", arg |-> "", row |-> "", err |-> "nil", before |-> {}]

\* The last call that returned: its result, the store state it was invoked
\* on, and the tables and transactions as they were when it returned.
ReturnOn(state, op, arg, err, out) ==
  ret' = [op |-> op, arg |-> arg, err |-> err, out |-> out, on |-> state,
          pre |-> Tables, txs |-> tx]

Return(op, arg, err, out) == ReturnOn(db, op, arg, err, out)

\* What database/sql answers before it runs a statement: a nil *sql.DB (a
\* store that was never opened) is dereferenced and the call panics, a
\* closed DB is "sql: database is closed", and a context that is already
\* done is its error; the closed check comes first.
Refusal(ctx) ==
  IF db = "unopened" THEN "panic"
  ELSE IF db = "closed" THEN "closed"
  ELSE IF ctx = "done" THEN "cancelled"
  ELSE "nil"

Refused(ctx) == Refusal(ctx) # "nil"

\* (variant: a statement that removes the rows it reads)
DeleteReturning ==
  /\ entries' = {}
  /\ findings' = {}
  /\ summaries' = {}
  /\ metrics' = {}
  /\ vec_embeddings' = <<>>

\* QueryContext / QueryRowContext with a SELECT statement, which is all a
\* read operation sends to the database: no table is written.
Select == UNCHANGED <<entries, findings, summaries, metrics, vec_embeddings>>

\* A context is "live" throughout the call, "done" before the call, or it
\* "fires" while the call is reading the rows of its query.

\* for rows.Next() { scan; append }; return rows, rows.Err(): when the context
\* is cancelled during the iteration, rows.Next() returns false at the next
\* row, rows.Err() is the context's error, and the rows appended so far are
\* returned with it.
ScanLoop(ctx, rows) ==
  IF ctx = "fires"
    THEN {[err |-> "cancelled", out |-> SubSeq(rows, 1, n)] : n \in 0..Len(rows)}
    ELSE {[err |-> "nil", out |-> rows]}

-----------------------------------------------------------------------------
(* schema.sql constraints *)

\* (variant: a table declared without PRIMARY KEY)
NoPrimaryKey(table, id) == FALSE

PrimaryKeyViolated(table, id) == id \in Ids(table)

\* (variant: a connection opened without _foreign_keys=on)
ForeignKeysOff(parent, id) == FALSE

ForeignKeyViolated(parent, id) == id \notin Ids(parent)

-----------------------------------------------------------------------------
(* Entries *)

EntryInputs ==
  [ID : {"", "a"}, Date : Dates, Category : Categories,
   InputText : {"in"}, AnalysisText : {""}, CreatedAt : Timestamps]

\* (variant: no id is generated for an empty one)
KeepID(id) == id

AssignID(id) == IF id = "" THEN UUID(uuids + 1) ELSE id

AssignCreatedAt(t, now) == IF IsZero(t) THEN now ELSE t

EntryRow(e) ==
  [id |-> e.ID, date |-> FormatDateOnly(e.Date), category |-> e.Category,
   input_text |-> e.InputText, analysis_text |-> e.AnalysisText,
   created_at |-> FormatRFC3339(e.CreatedAt)]

scanEntry(r) ==
  [ID |-> r.id, Date |-> ParseDateOnly(r.date), Category |-> r.category,
   InputText |-> r.input_text, AnalysisText |-> r.analysis_text,
   CreatedAt |-> ParseRFC3339(r.created_at)]

ZeroEntry ==
  [ID |-> "", Date |-> ZeroTime, Category |-> "", InputText |-> "",
   AnalysisText |-> "", CreatedAt |-> ZeroTime]

SaveEntry(ctx, entry) ==
  /\ Refused(ctx) \/ ~WriteLocked
  /\ entry.ID = "" => uuids < MaxUUID
  /\ \E now \in Clock :
       LET e == [entry EXCEPT !.ID = AssignID(entry.ID),
                              !.CreatedAt = AssignCreatedAt(entry.CreatedAt, now)]
           row == EntryRow(e)
       IN /\ uuids' = IF entry.ID = "" THEN uuids + 1 ELSE uuids
          /\ IF Refused(ctx)
               THEN /\ Return("SaveEntry", entry, Refusal(ctx), row)
                    /\ UNCHANGED entries
               ELSE IF PrimaryKeyViolated(entries, row.id)
                 THEN /\ Return("SaveEntry", entry, "constraint", row)
                      /\ UNCHANGED entries
                 ELSE /\ Cardinality(entries) < MaxEntries /\ Rows < MaxRows
                      /\ entries' = entries \cup {row}
                      /\ Return("SaveEntry", entry, "nil", row)
  /\ UNCHANGED <<calls, registry, all, findings, summaries, metrics, tx, vec_embeddings, db>>

\* SaveEntry as the two steps a concurrent caller takes. The call: the id
\* and the creation time are assigned in the caller's copy of the entry
\* (before holds the entries stored when the call began).
SaveEntryCall(c, entry) ==
  /\ db = "open"
  /\ calls[c].pc # "called"
  /\ entry.ID = "" => uuids < MaxUUID
  /\ \E now \in Clock :
       LET e == [entry EXCEPT !.ID = AssignID(entry.ID),
                              !.CreatedAt = AssignCreatedAt(entry.CreatedAt, now)]
       IN calls' = [calls EXCEPT ![c] = [pc |-> "called", arg |-> entry,
                                         row |-> EntryRow(e), err |-> "nil",
                                         before |-> entries]]
  /\ uuids' = IF entry.ID = "" THEN uuids + 1 ELSE uuids
  /\ UNCHANGED <<entries, findings, summaries, metrics, vec_embeddings, db, tx,
                 ret, registry, all>>

\* The INSERT of a call in flight: one statement, which SQLite runs under
\* the write lock, so the inserts of concurrent calls run one after another.
SaveEntryInsert(c) ==
  /\ calls[c].pc = "called"
  /\ ~WriteLocked
  /\ IF PrimaryKeyViolated(entries, calls[c].row.id)
       THEN /\ calls' = [calls EXCEPT ![c].pc = "returned",
                                      ![c].err = "constraint"]
            /\ ReturnOn("open", "SaveEntry", calls[c].arg, "constraint",
                        calls[c].row)
            /\ UNCHANGED entries
       ELSE /\ Cardinality(entries) < MaxEntries
            /\ entries' = entries \cup {calls[c].row}
            /\ calls' = [calls EXCEPT ![c].pc = "returned"]
            /\ ReturnOn("open", "SaveEntry", calls[c].arg, "nil", calls[c].row)
  /\ UNCHANGED <<findings, summaries, metrics, vec_embeddings, db, uuids, tx,
                 registry, all>>

\* (variant: a query without its ORDER BY clause)
Unordered(key) ==
  {s \in [1..Cardinality(DOMAIN key) -> DOMAIN key] :
     \A i, j \in DOMAIN s : i # j => s[i] # s[j]}

\* The sequences a query can return for its matching rows, given as the
\* function from each row to its sort key: every row once, ordered by key
\* descending; rows with equal keys in any order.
OrderByDesc(key) ==
  {s \in [1..Cardinality(DOMAIN key) -> DOMAIN key] :
     /\ \A i, j \in DOMAIN s : i # j => s[i] # s[j]
     /\ \A i, j \in DOMAIN s : i < j => key[s[i]] >= key[s[j]]}

EntryDateKey(r) == r.date

\* (variant: a window that excludes its last day)
SelectEntriesBeforeTo(category, from, to) ==
  {r \in entries : r.category = category /\ r.date >= from /\ r.date < to}

SelectEntriesByDateRange(category, from, to) ==
  {r \in entries : r.category = category /\ r.date >= from /\ r.date <= to}

scanEntries(rows) == [i \in DOMAIN rows |-> scanEntry(rows[i])]

\* The results the query can produce in the current state.
QueryEntriesByDateRange(category, from, to) ==
  {scanEntries(rows) :
     rows \in OrderByDesc([r \in SelectEntriesByDateRange(category,
                                                           FormatDateOnly(from),
                                                           FormatDateOnly(to))
                              |-> EntryDateKey(r)])}

GetEntriesByDateRange(ctx, category, from, to) ==
  /\ IF Refused(ctx)
       THEN Return("GetEntriesByDateRange",
                   [category |-> category, from |-> from, to |-> to],
                   Refusal(ctx), <<>>)
       ELSE \E rows \in QueryEntriesByDateRange(category, from, to) :
            \E res \in ScanLoop(ctx, rows) :
              Return("GetEntriesByDateRange",
                     [category |-> category, from |-> from, to |-> to],
                     res.err, res.out)
  /\ Select
  /\ UNCHANGED <<calls, registry, all, uuids, tx, db>>

\* (variant: a lookup that answers a miss with the zero Entry and no error)
QueryEntryByIDNoError(id) ==
  IF \E r \in entries : r.id = id
    THEN {[err |-> "nil", out |-> scanEntry(r)] : r \in {x \in entries : x.id = id}}
    ELSE {[err |-> "nil", out |-> ZeroEntry]}

\* row.Scan: sql.ErrNoRows when the query matched no row.
QueryEntryByID(id) ==
  IF \E r \in entries : r.id = id
    THEN {[err |-> "nil", out |-> scanEntry(r)] : r \in {x \in entries : x.id = id}}
    ELSE {[err |-> "notfound", out |-> ZeroEntry]}

GetEntryByID(ctx, id) ==
  /\ IF Refused(ctx)
       THEN Return("GetEntryByID", id, Refusal(ctx), ZeroEntry)
       ELSE IF ctx = "fires"
         THEN Return("GetEntryByID", id, "cancelled", ZeroEntry)
         ELSE \E res \in QueryEntryByID(id) :
                Return("GetEntryByID", id, res.err, res.out)
  /\ Select
  /\ UNCHANGED <<calls, registry, all, uuids, tx, db>>

-----------------------------------------------------------------------------
(* Findings *)

CategoryLists ==
  {NilSlice, Slice(<<>>), Slice(<<"sleep", "food">>), Slice(<<"food", "sleep">>)}

FindingInputs ==
  [ID : {"", "a"}, Date : Dates, FindingText : {"ft"},
   Categories : CategoryLists, CreatedAt : {ZeroTime, SubSecond}]

FindingRow(f) ==
  [id |-> f.ID, date |-> FormatDateOnly(f.Date), finding_text |-> f.FindingText,
   categories |-> jsonMarshal(f.Categories),
   created_at |-> FormatRFC3339(f.CreatedAt)]

scanFinding(r) ==
  [ID |-> r.id, Date |-> ParseDateOnly(r.date), FindingText |-> r.finding_text,
   Categories |-> jsonUnmarshal(r.categories),
   CreatedAt |-> ParseRFC3339(r.created_at)]

SaveFinding(ctx, finding) ==
  /\ Refused(ctx) \/ ~WriteLocked
  /\ finding.ID = "" => uuids < MaxUUID
  /\ \E now \in Clock :
       LET f == [finding EXCEPT !.ID = AssignID(finding.ID),
                                !.CreatedAt = AssignCreatedAt(finding.CreatedAt, now)]
           row == FindingRow(f)
       IN /\ uuids' = IF finding.ID = "" THEN uuids + 1 ELSE uuids
          /\ IF Refused(ctx)
               THEN /\ Return("SaveFinding", finding, Refusal(ctx), row)
                    /\ UNCHANGED findings
               ELSE IF PrimaryKeyViolated(findings, row.id)
                 THEN /\ Return("SaveFinding", finding, "constraint", row)
                      /\ UNCHANGED findings
                 ELSE /\ Cardinality(findings) < MaxFindings /\ Rows < MaxRows
                      /\ findings' = findings \cup {row}
                      /\ Return("SaveFinding", finding, "nil", row)
  /\ UNCHANGED <<calls, registry, all, entries, summaries, metrics, tx, vec_embeddings, db>>

FindingDateKey(r) == r.date

\* (variant: a query without its LIMIT clause)
NoLimit(s, n) == s

\* LIMIT n keeps the first n rows of the ordered result; a negative LIMIT
\* is no limit in SQLite.
Limit(s, n) == IF n < 0 \/ n >= Len(s) THEN s ELSE SubSeq(s, 1, n)

scanFindings(rows) == [i \in DOMAIN rows |-> scanFinding(rows[i])]

QueryRecentFindings(limit) ==
  {scanFindings(Limit(rows, limit)) : rows \in OrderByDesc([r \in findings |-> FindingDateKey(r)])}

GetRecentFindings(ctx, limit) ==
  /\ IF Refused(ctx)
       THEN Return("GetRecentFindings", limit, Refusal(ctx), <<>>)
       ELSE \E rows \in QueryRecentFindings(limit) :
            \E res \in ScanLoop(ctx, rows) :
              Return("GetRecentFindings", limit, res.err, res.out)
  /\ Select
  /\ UNCHANGED <<calls, registry, all, uuids, tx, db>>

-----------------------------------------------------------------------------
(* Summaries *)

SummaryInputs ==
  [ID : {"", "a"}, PeriodStart : Dates, PeriodEnd : Dates,
   Category : Categories, SummaryText : {"st"},
   CreatedAt : {ZeroTime, SubSecond}]

SummaryRow(s) ==
  [id |-> s.ID, period_start |-> FormatDateOnly(s.PeriodStart),
   period_end |-> FormatDateOnly(s.PeriodEnd), category |-> s.Category,
   summary_text |-> s.SummaryText, created_at |-> FormatRFC3339(s.CreatedAt)]

scanSummary(r) ==
  [ID |-> r.id, PeriodStart |-> ParseDateOnly(r.period_start),
   PeriodEnd |-> ParseDateOnly(r.period_end), Category |-> r.category,
   SummaryText |-> r.summary_text, CreatedAt |-> ParseRFC3339(r.created_at)]

SaveSummary(ctx, summary) ==
  /\ Refused(ctx) \/ ~WriteLocked
  /\ summary.ID = "" => uuids < MaxUUID
  /\ \E now \in Clock :
       LET s == [summary EXCEPT !.ID = AssignID(summary.ID),
                                !.CreatedAt = AssignCreatedAt(summary.CreatedAt, now)]
           row == SummaryRow(s)
       IN /\ uuids' = IF summary.ID = "" THEN uuids + 1 ELSE uuids
          /\ IF Refused(ctx)
               THEN /\ Return("SaveSummary", summary, Refusal(ctx), row)
                    /\ UNCHANGED summaries
               ELSE IF PrimaryKeyViolated(summaries, row.id)
                 THEN /\ Return("SaveSummary", summary, "constraint", row)
                      /\ UNCHANGED summaries
                 ELSE /\ Cardinality(summaries) < MaxSummaries /\ Rows < MaxRows
                      /\ summaries' = summaries \cup {row}
                      /\ Return("SaveSummary", summary, "nil", row)
  /\ UNCHANGED <<calls, registry, all, entries, findings, metrics, tx, vec_embeddings, db>>

SummaryStartKey(r) == r.period_start

\* (variant: periods that overlap the window instead of lying within it)
SelectSummariesOverlapping(category, from, to) ==
  {r \in summaries :
     r.category = category /\ r.period_start <= to /\ r.period_end >= from}

SelectSummaries(category, from, to) ==
  {r \in summaries :
     r.category = category /\ r.period_start >= from /\ r.period_end <= to}

scanSummaries(rows) == [i \in DOMAIN rows |-> scanSummary(rows[i])]

QuerySummaries(category, from, to) ==
  {scanSummaries(rows) :
     rows \in OrderByDesc([r \in SelectSummaries(category, FormatDateOnly(from),
                                                  FormatDateOnly(to))
                              |-> SummaryStartKey(r)])}

GetSummaries(ctx, category, from, to) ==
  /\ IF Refused(ctx)
       THEN Return("GetSummaries",
                   [category |-> category, from |-> from, to |-> to],
                   Refusal(ctx), <<>>)
       ELSE \E rows \in QuerySummaries(category, from, to) :
            \E res \in ScanLoop(ctx, rows) :
              Return("GetSummaries",
                     [category |-> category, from |-> from, to |-> to],
                     res.err, res.out)
  /\ Select
  /\ UNCHANGED <<calls, registry, all, uuids, tx, db>>

-----------------------------------------------------------------------------
(* Metrics *)

MetricInputs ==
  {[ID |-> "", EntryID |-> "", Key |-> "k1", Value |-> 7, CreatedAt |-> ZeroTime],
   [ID |-> "m", EntryID |-> "", Key |-> "k1", Value |-> 7,
    CreatedAt |-> ZeroTime],
   [ID |-> "m", EntryID |-> "b", Key |-> "k2", Value |-> 9,
    CreatedAt |-> WholeSecond]}

Batches == UNION {[1..n -> MetricInputs] : n \in 0..MaxBatch}

Generated(batch) == Cardinality({i \in DOMAIN batch : batch[i].ID = ""})

MetricRow(id, entryID, m, now) ==
  [id |-> id, entry_id |-> entryID, key |-> m.Key, value |-> m.Value,
   created_at |-> FormatRFC3339(now)]

scanMetric(r) ==
  [ID |-> r.id, EntryID |-> r.entry_id, Key |-> r.key, Value |-> r.value,
   CreatedAt |-> ParseRFC3339(r.created_at)]

SaveMetricsArg(p) == [entryID |-> tx[p].entryID, metrics |-> tx[p].batch]

\* (variant: the inserts run on the pool, outside the transaction, so the
\* rollback leaves them in place)
RollbackKeepsRows(rows) == metrics \cup Range(rows)

\* defer tx.Rollback(): the metrics table after a transaction that inserted
\* rows is rolled back.
Rollback(rows) == metrics

\* (variant: a commit that replaces the table by the rows of the batch)
CommitReplaces(rows) == Range(rows)

\* tx.Commit(): the metrics table after the transaction's rows are committed.
Commit(rows) == metrics \cup Range(rows)

\* (variant: a reader that sees uncommitted rows)
DirtySnapshot(txs) == metrics \cup UNION {Range(txs[p].rows) : p \in Procs}

\* The metrics rows a statement on another connection reads while the
\* transactions txs are open: the committed rows only.
Snapshot(txs) == metrics

SaveMetricsBegin(p, ctx, entryID, batch) ==
  /\ tx[p].pc = "idle"
  /\ Cardinality(metrics) + Len(batch) <= MaxMetrics
  /\ uuids + Generated(batch) <= MaxUUID
  /\ IF Refused(ctx)
       THEN /\ Return("SaveMetrics", [entryID |-> entryID, metrics |-> batch],
                      Refusal(ctx), <<>>)
            /\ UNCHANGED tx
       ELSE /\ \E now \in Clock :
                 tx' = [tx EXCEPT ![p] = [pc |-> "open", locked |-> FALSE,
                                          entryID |-> entryID, batch |-> batch,
                                          now |-> now, rows |-> <<>>]]
            /\ UNCHANGED ret
  /\ UNCHANGED <<calls, registry, all, entries, findings, summaries, metrics, uuids, vec_embeddings, db>>

SaveMetricsInsert(p, fired) ==
  /\ tx[p].pc = "open"
  /\ Len(tx[p].rows) < Len(tx[p].batch)
  /\ LET m == tx[p].batch[Len(tx[p].rows) + 1]
         row == MetricRow(AssignID(m.ID), tx[p].entryID, m, tx[p].now)
     IN /\ m.ID = "" => uuids < MaxUUID
        /\ uuids' = IF m.ID = "" THEN uuids + 1 ELSE uuids
        /\ IF fired
             THEN /\ metrics' = Rollback(tx[p].rows)
                  /\ tx' = [tx EXCEPT ![p] = IdleTx]
                  /\ ReturnOn("open", "SaveMetrics", SaveMetricsArg(p), "cancelled",
                            tx[p].rows)
             ELSE /\ \A q \in Procs \ {p} : ~tx[q].locked
                  /\ IF \/ PrimaryKeyViolated(metrics \cup Range(tx[p].rows), row.id)
                        \/ ForeignKeyViolated(entries, row.entry_id)
                       THEN /\ metrics' = Rollback(tx[p].rows)
                            /\ tx' = [tx EXCEPT ![p] = IdleTx]
                            /\ ReturnOn("open", "SaveMetrics", SaveMetricsArg(p),
                                      "constraint", tx[p].rows)
                       ELSE /\ Cardinality(metrics) + Len(tx[p].rows) < MaxMetrics
                            /\ tx' = [tx EXCEPT ![p].rows = Append(@, row),
                                                ![p].locked = TRUE]
                            /\ UNCHANGED <<metrics, ret>>
  /\ UNCHANGED <<calls, registry, all, entries, findings, summaries, vec_embeddings, db>>

SaveMetricsCommit(p, fired) ==
  /\ tx[p].pc = "open"
  /\ Len(tx[p].rows) = Len(tx[p].batch)
  /\ IF fired
       THEN /\ metrics' = Rollback(tx[p].rows)
            /\ ReturnOn("open", "SaveMetrics", SaveMetricsArg(p), "cancelled", tx[p].rows)
       ELSE /\ metrics' = Commit(tx[p].rows)
            /\ ReturnOn("open", "SaveMetrics", SaveMetricsArg(p), "nil", tx[p].rows)
  /\ tx' = [tx EXCEPT ![p] = IdleTx]
  /\ UNCHANGED <<calls, registry, all, entries, findings, summaries, uuids, vec_embeddings, db>>

JoinDateKey(pair) == pair[2].date

\* (variant: the join without the filter on the metric key)
SelectMetricsAnyKey(category, key, from, to) ==
  {pair \in Snapshot(tx) \X entries :
     /\ pair[2].id = pair[1].entry_id
     /\ pair[2].category = category
     /\ pair[2].date >= from
     /\ pair[2].date <= to}

SelectMetrics(category, key, from, to) ==
  {pair \in Snapshot(tx) \X entries :
     /\ pair[2].id = pair[1].entry_id
     /\ pair[2].category = category
     /\ pair[1].key = key
     /\ pair[2].date >= from
     /\ pair[2].date <= to}

scanMetrics(rows) == [i \in DOMAIN rows |-> scanMetric(rows[i][1])]

QueryMetrics(category, key, from, to) ==
  {scanMetrics(rows) :
     rows \in OrderByDesc([pair \in SelectMetrics(category, key,
                                                   FormatDateOnly(from),
                                                   FormatDateOnly(to))
                              |-> JoinDateKey(pair)])}

GetMetrics(ctx, category, key, from, to) ==
  /\ IF Refused(ctx)
       THEN Return("GetMetrics",
                   [category |-> category, key |-> key, from |-> from, to |-> to],
                   Refusal(ctx), <<>>)
       ELSE \E rows \in QueryMetrics(category, key, from, to) :
            \E res \in ScanLoop(ctx, rows) :
              Return("GetMetrics",
                     [category |-> category, key |-> key, from |-> from,
                      to |-> to],
                     res.err, res.out)
  /\ Select
  /\ UNCHANGED <<calls, registry, all, uuids, tx, db>>

-----------------------------------------------------------------------------
(* Embeddings *)

\* The number of floats of an embedding vector. The source sets 1536; the
\* model keeps vectors enumerable with a dimension of one.
EmbeddingDimension == 1

\* float32 values 0.0, 1.0 and 2.0.
Floats == {0, 1, 2}

\* math.Float32bits: the IEEE 754 bit pattern of a value of Floats.
Float32bits(x) ==
  CASE x = 0 -> 0
    [] x = 1 -> 1065353216
    [] x = 2 -> 1073741824

Float32frombits(b) == CHOOSE x \in Floats : Float32bits(x) = b

LittleEndian(bits) ==
  <<bits % 256, (bits \div 256) % 256, (bits \div 65536) % 256,
    (bits \div 16777216) % 256>>

FromLittleEndian(b) == b[1] + 256 * b[2] + 65536 * b[3] + 16777216 * b[4]

\* (variant: a vector cut or zero-padded to the embedding dimension before it
\* is serialized)
SerializeFitted(v) ==
  [i \in 1..(4 * EmbeddingDimension) |->
     LittleEndian(Float32bits(IF ((i - 1) \div 4) + 1 <= Len(v)
                                THEN v[((i - 1) \div 4) + 1]
                                ELSE 0))[((i - 1) % 4) + 1]]

\* sqlite_vec.SerializeFloat32: four little-endian bytes per element, whatever
\* the length of the vector.
SerializeFloat32(v) ==
  [i \in 1..(4 * Len(v)) |->
     LittleEndian(Float32bits(v[((i - 1) \div 4) + 1]))[((i - 1) % 4) + 1]]

\* The vector vec0 reads from a blob.
DeserializeFloat32(blob) ==
  [n \in 1..(Len(blob) \div 4) |->
     Float32frombits(FromLittleEndian(SubSeq(blob, 4 * n - 3, 4 * n)))]

\* vec_schema.sql: the vec0 table vec_embeddings, with its two metadata
\* columns and a float vector column of the embedding dimension.
vecSchemaSQL ==
  [table |-> "vec_embeddings", metadata |-> {"source_id", "source_type"},
   dimension |-> EmbeddingDimension]

\* vec0 refuses a vector whose byte length is not that of the declared
\* dimension (an empty one included).
DimensionMismatch(blob) == Len(blob) # 4 * vecSchemaSQL.dimension

Abs(x) == IF x < 0 THEN -x ELSE x

\* vec0's default metric for float vectors, the L2 distance, which for a
\* dimension of one is the absolute difference.
Distance(blob, query) ==
  Abs(DeserializeFloat32(blob)[1] - DeserializeFloat32(query)[1])

SaveEmbeddingArg(sourceID, sourceType, embedding) ==
  [sourceID |-> sourceID, sourceType |-> sourceType, embedding |-> embedding]

SaveEmbedding(ctx, sourceID, sourceType, embedding) ==
  LET blob == SerializeFloat32(embedding)
      arg == SaveEmbeddingArg(sourceID, sourceType, embedding)
      row == [source_id |-> sourceID, source_type |-> sourceType,
              embedding |-> blob]
  IN /\ Refused(ctx) \/ ~WriteLocked
     /\ IF Refused(ctx)
          THEN /\ Return("SaveEmbedding", arg, Refusal(ctx), row)
               /\ UNCHANGED vec_embeddings
          ELSE IF DimensionMismatch(blob)
            THEN /\ Return("SaveEmbedding", arg, "serialization", row)
                 /\ UNCHANGED vec_embeddings
            ELSE /\ Len(vec_embeddings) < MaxEmbeddings
                 /\ vec_embeddings' = Append(vec_embeddings, row)
                 /\ Return("SaveEmbedding", arg, "nil", row)
     /\ UNCHANGED <<calls, registry, all, entries, findings, summaries, metrics, uuids, tx, db>>

\* (variant: the query without its filter on the source type)
AllVectors(sourceType) == DOMAIN vec_embeddings

\* WHERE v.source_type = ?: the rows of vec_embeddings the nearest-neighbour
\* search runs over (a filter on a metadata column is applied inside it).
KnnCandidates(sourceType) ==
  {i \in DOMAIN vec_embeddings : vec_embeddings[i].source_type = sourceType}

\* WHERE v.embedding MATCH ? AND k = ?: the k candidates nearest to the query,
\* closest first; candidates at the same distance in any order.
Knn(query, sourceType, k) ==
  {Limit(rows, k) :
     rows \in OrderByDesc([i \in KnnCandidates(sourceType) |->
                             -Distance(vec_embeddings[i].embedding, query)])}

\* JOIN entries e ON e.id = v.source_id: a row without such an entry is
\* dropped from the result.
JoinEntries(rows) ==
  LET HasEntry(i) == \E e \in entries : e.id = vec_embeddings[i].source_id
  IN SelectSeq(rows, HasEntry)

scanSimilar(rows, query) ==
  [n \in DOMAIN rows |->
     [Entry |-> scanEntry(CHOOSE e \in entries :
                            e.id = vec_embeddings[rows[n]].source_id),
      Distance |-> Distance(vec_embeddings[rows[n]].embedding, query)]]

QuerySimilar(query, sourceType, k) ==
  {scanSimilar(JoinEntries(rows), query) : rows \in Knn(query, sourceType, k)}

SearchSimilarArg(embedding, sourceType, limit) ==
  [embedding |-> embedding, sourceType |-> sourceType, limit |-> limit]

\* vec0 refuses a query vector of another dimension and a negative k.
SearchSimilar(ctx, embedding, sourceType, limit) ==
  LET blob == SerializeFloat32(embedding)
      arg == SearchSimilarArg(embedding, sourceType, limit)
  IN /\ IF Refused(ctx)
          THEN Return("SearchSimilar", arg, Refusal(ctx), <<>>)
          ELSE IF DimensionMismatch(blob)
            THEN Return("SearchSimilar", arg, "serialization", <<>>)
            ELSE IF limit < 0
              THEN Return("SearchSimilar", arg, "query", <<>>)
              ELSE \E rows \in QuerySimilar(blob, sourceType, limit) :
                   \E res \in ScanLoop(ctx, rows) :
                     Return("SearchSimilar", arg, res.err, res.out)
     /\ Select
     /\ UNCHANGED <<calls, registry, all, uuids, tx, db>>

-----------------------------------------------------------------------------
(* Lifecycle *)

\* The step of NewSQLiteStore that fails, if one does: sql.Open, the Exec of
\* the core schema, or the Exec of the vec schema.
Failures == {"none", "sql.Open", "core schema", "vec schema"}

\* (variant: a schema that drops and recreates its tables)
DropAndCreate(rows) == {}

\* CREATE TABLE IF NOT EXISTS and CREATE INDEX IF NOT EXISTS, run on a table
\* of the database file: a table that exists keeps its rows, a table that is
\* absent is created empty (and has no rows in the model either way).
CreateIfNotExists(rows) == rows

\* The statement of vec_schema.sql run on the database file: the virtual
\* table is created when absent and an existing one keeps its rows.
CreateVirtualIfNotExists(rows) == rows

\* applySchema: the core schema, then the vec schema; the first failure is
\* wrapped and returned, and the statements run before it keep their effect.
applySchema(tables, fail) ==
  LET core == [entries |-> CreateIfNotExists(tables.entries),
               findings |-> CreateIfNotExists(tables.findings),
               summaries |-> CreateIfNotExists(tables.summaries),
               metrics |-> CreateIfNotExists(tables.metrics),
               vec_embeddings |-> tables.vec_embeddings]
      vec == [core EXCEPT !.vec_embeddings = CreateVirtualIfNotExists(@)]
  IN CASE fail = "core schema" -> [err |-> "core schema", tables |-> tables]
       [] fail = "vec schema" -> [err |-> "vec schema", tables |-> core]
       [] OTHER -> [err |-> "nil", tables |-> vec]

\* (variant: the error path of applySchema returns without db.Close())
HandleLeaked(fail) ==
  CASE fail = "sql.Open" -> "none"
    [] OTHER -> "held"

\* What has become of the *sql.DB when NewSQLiteStore returns: sql.Open
\* failed and there is none; applySchema failed and db.Close() released it;
\* or the returned store holds it.
Handle(fail) ==
  CASE fail = "sql.Open" -> "none"
    [] fail \in {"core schema", "vec schema"} -> "released"
    [] OTHER -> "held"

\* NewSQLiteStore called by a caller whose store is in state from (never
\* opened, or closed): sql.Open and applySchema on the database file. On
\* success the caller holds an open store; on failure it is handed nil and
\* an error, and holds what it held before.
NewSQLiteStore(from, fail) ==
  LET after == IF fail = "sql.Open" THEN Tables
                                    ELSE applySchema(Tables, fail).tables
  IN /\ db = from
     /\ entries' = after.entries
     /\ findings' = after.findings
     /\ summaries' = after.summaries
     /\ metrics' = after.metrics
     /\ vec_embeddings' = after.vec_embeddings
     /\ db' = IF fail = "none" THEN "open" ELSE db
     /\ Return("NewSQLiteStore", "",
               IF fail = "none" THEN "nil" ELSE "connection",
               [failed |-> fail, handle |-> Handle(fail)])
     /\ UNCHANGED <<calls, registry, all, uuids, tx>>

\* (variant: a handle whose second Close reports that it is already closed)
CloseOnceOnly(state) ==
  CASE state = "unopened" -> [err |-> "panic", db |-> "unopened"]
    [] state = "open" -> [err |-> "nil", db |-> "closed"]
    [] state = "closed" -> [err |-> "closed", db |-> "closed"]

\* s.db.Close(): a nil *sql.DB is dereferenced and the call panics; an open
\* DB is marked closed and its idle connections are closed (a transaction in
\* flight keeps its connection until it ends); a closed DB returns nil again.
dbClose(state) ==
  CASE state = "unopened" -> [err |-> "panic", db |-> "unopened"]
    [] state = "open" -> [err |-> "nil", db |-> "closed"]
    [] state = "closed" -> [err |-> "nil", db |-> "closed"]

Close ==
  /\ db' = dbClose(db).db
  /\ Return("Close", "", dbClose(db).err, "")
  /\ UNCHANGED <<calls, registry, all, entries, findings, summaries, metrics, vec_embeddings, uuids, tx>>

-----------------------------------------------------------------------------
(* The category registry (internal/category) *)

\* A Go map[string]agent.SubAgent is a function from the names it holds to
\* sub-agents; the value read for a name it does not hold is the nil
\* SubAgent.
NilSubAgent == [impl |-> "nil", category |-> ""]

EmptyMap == [name \in {} |-> NilSubAgent]

\* The sub-agents: an implementation, and the name its Category() returns.
SubAgents == [impl : {"x", "y"}, category : Categories]

\* The caller holds no map returned by All.
NoMap == [ref |-> "none", out |-> EmptyMap]

\* m[name] = s
MapPut(m, name, s) ==
  [n \in DOMAIN m \cup {name} |-> IF n = name THEN s ELSE m[n]]

\* delete(m, name)
MapDelete(m, name) == [n \in DOMAIN m \ {name} |-> m[n]]

\* m[name], nil when the map holds no such name
MapGet(m, name) == IF name \in DOMAIN m THEN m[name] ELSE NilSubAgent

\* registry[s.Category()] = s
Register(s) ==
  /\ registry' = MapPut(registry, s.category, s)
  /\ Return("Register", s, "nil", registry)
  /\ UNCHANGED <<entries, findings, summaries, metrics, vec_embeddings, db,
                 uuids, tx, calls, all>>

\* (variant: All returns the registry map itself)
AllReturnsRegistry(reg) == [ref |-> "registry", out |-> reg]

\* The map All returns: a new map, filled with the pairs of the registry.
AllCopies(reg) ==
  [ref |-> "out",
   out |-> [name \in DOMAIN reg |-> reg[name]]]

All ==
  /\ all' = AllCopies(registry)
  /\ Return("All", "", "nil", AllCopies(registry).out)
  /\ UNCHANGED <<entries, findings, summaries, metrics, vec_embeddings, db,
                 uuids, tx, calls, registry>>

\* What Get(name) returns in the current state.
GetResult(name) == MapGet(registry, name)

Get(name) ==
  /\ Return("Get", name, "nil", GetResult(name))
  /\ UNCHANGED <<entries, findings, summaries, metrics, vec_embeddings, db,
                 uuids, tx, calls, registry, all>>

\* What Categories() can return in the current state: the names of the
\* registry, each once, in the order the map iteration yields them (any).
CategoriesResults ==
  {names \in [1..Cardinality(DOMAIN registry) -> DOMAIN registry] :
     \A i, j \in DOMAIN names : i # j => names[i] # names[j]}

CategoriesCall ==
  /\ \E names \in CategoriesResults : Return("Categories", "", "nil", names)
  /\ UNCHANGED <<entries, findings, summaries, metrics, vec_embeddings, db,
                 uuids, tx, calls, registry, all>>

\* The caller changes the map it got from All (m[name] = s, or
\* delete(m, name)): the change is made to the map that the reference names.
ChangeAll(name, s, put) ==
  /\ all.ref # "none"
  /\ LET m == IF all.ref = "registry" THEN registry ELSE all.out
         changed == IF put THEN MapPut(m, name, s) ELSE MapDelete(m, name)
     IN IF all.ref = "registry"
          THEN /\ registry' = changed
               /\ all' = [all EXCEPT !.out = changed]
          ELSE /\ all' = [all EXCEPT !.out = changed]
               /\ UNCHANGED registry
  /\ UNCHANGED <<entries, findings, summaries, metrics, vec_embeddings, db,
                 uuids, tx, calls, ret>>

-----------------------------------------------------------------------------

Init ==
  /\ entries = {}
  /\ findings = {}
  /\ summaries = {}
  /\ metrics = {}
  /\ vec_embeddings = <<>>
  /\ db = "open"
  /\ uuids = 0
  /\ tx = [p \in Procs |-> IdleTx]
  /\ calls = [c \in Callers |-> IdleCall]
  /\ registry = EmptyMap
  /\ all = NoMap
  /\ ret = [op |-> "NewSQLiteStore", arg |-> "", err |-> "nil",
            out |-> [failed |-> "none", handle |-> "held"],
            on |-> "unopened",
            pre |-> [entries |-> {}, findings |-> {}, summaries |-> {},
                     metrics |-> {}, vec_embeddings |-> <<>>],
            txs |-> [p \in Procs |-> IdleTx]]

CancelledEntry ==
  [ID |-> "", Date |-> date(1), Category |-> "sleep", InputText |-> "in",
   AnalysisText |-> "", CreatedAt |-> ZeroTime]

CancelledFinding ==
  [ID |-> "", Date |-> date(1), FindingText |-> "ft", Categories |-> NilSlice,
   CreatedAt |-> ZeroTime]

CancelledSummary ==
  [ID |-> "", PeriodStart |-> date(1), PeriodEnd |-> date(1),
   Category |-> "sleep", SummaryText |-> "st", CreatedAt |-> ZeroTime]

LookupIds == {"a", "zz"} \cup {UUID(n) : n \in 1..MaxUUID}

NextEntries ==
  \/ \E e \in EntryInputs : SaveEntry("live", e)
  \/ SaveEntry("done", CancelledEntry)
  \/ \E c \in Categories, from, to \in Dates :
       GetEntriesByDateRange("live", c, from, to)
  \/ GetEntriesByDateRange("done", "sleep", date(1), date(MaxDay))
  \/ \E id \in LookupIds : GetEntryByID("live", id)
  \/ GetEntryByID("done", "a")

SpecEntries == Init /\ [][NextEntries]_vars

NextFindings ==
  \/ \E f \in FindingInputs : SaveFinding("live", f)
  \/ SaveFinding("done", CancelledFinding)
  \/ \E n \in -1..MaxFindings : GetRecentFindings("live", n)
  \/ GetRecentFindings("done", 1)

SpecFindings == Init /\ [][NextFindings]_vars

NextSummaries ==
  \/ \E s \in SummaryInputs : SaveSummary("live", s)
  \/ SaveSummary("done", CancelledSummary)
  \/ \E c \in Categories, from, to \in Dates : GetSummaries("live", c, from, to)
  \/ GetSummaries("done", "sleep", date(1), date(MaxDay))

SpecSummaries == Init /\ [][NextSummaries]_vars

OwnerInputs ==
  [ID : {"a"}, Date : Dates, Category : Categories,
   InputText : {"in"}, AnalysisText : {""}, CreatedAt : {ZeroTime}]
  \cup [ID : {"b"}, Date : {date(1)}, Category : {"sleep"},
        InputText : {"in"}, AnalysisText : {""}, CreatedAt : {ZeroTime}]

Keys == {"k1", "k2"}

NextMetrics ==
  \/ \E e \in OwnerInputs : SaveEntry("live", e)
  \/ \E p \in Procs, id \in {"a", "b"}, batch \in Batches :
       SaveMetricsBegin(p, "live", id, batch)
  \/ \E p \in Procs : SaveMetricsBegin(p, "done", "a", <<>>)
  \/ \E p \in Procs, fired \in BOOLEAN : SaveMetricsInsert(p, fired)
  \/ \E p \in Procs, fired \in BOOLEAN : SaveMetricsCommit(p, fired)
  \/ \E c \in Categories, k \in Keys, from, to \in Dates :
       GetMetrics("live", c, k, from, to)
  \/ GetMetrics("done", "sleep", "k1", date(1), date(MaxDay))

SpecMetrics == Init /\ [][NextMetrics]_vars

EmbeddingInputs == {<<>>, <<0>>, <<1>>, <<2>>, <<1, 2>>}

SourceIDs == {"a", "zz"}

SourceTypes == {"entry", "summary"}

NextEmbeddings ==
  \/ \E e \in OwnerInputs : SaveEntry("live", e)
  \/ \E id \in SourceIDs, t \in SourceTypes, v \in EmbeddingInputs :
       SaveEmbedding("live", id, t, v)
  \/ SaveEmbedding("done", "a", "entry", <<1>>)
  \/ \E q \in {<<0>>, <<1, 2>>}, t \in SourceTypes, k \in -1..(MaxEmbeddings + 1) :
       SearchSimilar("live", q, t, k)
  \/ SearchSimilar("done", <<0>>, "entry", 1)

SpecEmbeddings == Init /\ [][NextEmbeddings]_vars

(* The life of one store handle, from before NewSQLiteStore to after Close,
   with operations that succeed and operations that fail in between. *)

InitUnopened ==
  /\ entries = {}
  /\ findings = {}
  /\ summaries = {}
  /\ metrics = {}
  /\ vec_embeddings = <<>>
  /\ db = "unopened"
  /\ uuids = 0
  /\ tx = [p \in Procs |-> IdleTx]
  /\ calls = [c \in Callers |-> IdleCall]
  /\ registry = EmptyMap
  /\ all = NoMap
  /\ ret = [op |-> "", arg |-> "", err |-> "nil", out |-> "",
            on |-> "unopened",
            pre |-> [entries |-> {}, findings |-> {}, summaries |-> {},
                     metrics |-> {}, vec_embeddings |-> <<>>],
            txs |-> [p \in Procs |-> IdleTx]]

LifecycleBatches ==
  {<<[ID |-> "m", EntryID |-> "", Key |-> "k1", Value |-> 7,
      CreatedAt |-> ZeroTime]>>}

NextLifecycle ==
  \/ \E fail \in Failures : NewSQLiteStore("unopened", fail)
  \/ Close
  \/ \E ctx \in {"live", "done"} : SaveEntry(ctx, [CancelledEntry EXCEPT !.ID = "a"])
  \/ GetEntryByID("live", "a")
  \/ GetEntriesByDateRange("live", "sleep", date(1), date(MaxDay))
  \/ SaveFinding("live", [CancelledFinding EXCEPT !.ID = "a"])
  \/ GetRecentFindings("live", 1)
  \/ SaveSummary("live", [CancelledSummary EXCEPT !.ID = "a"])
  \/ GetSummaries("live", "sleep", date(1), date(MaxDay))
  \/ \E p \in Procs, id \in {"a", "zz"}, batch \in LifecycleBatches :
       SaveMetricsBegin(p, "live", id, batch)
  \/ \E p \in Procs, fired \in BOOLEAN : SaveMetricsInsert(p, fired)
  \/ \E p \in Procs, fired \in BOOLEAN : SaveMetricsCommit(p, fired)
  \/ GetMetrics("live", "sleep", "k1", date(1), date(MaxDay))
  \/ \E v \in {<<1>>, <<1, 2>>} : SaveEmbedding("live", "a", "entry", v)
  \/ SearchSimilar("live", <<0>>, "entry", 1)

SpecLifecycle == InitUnopened /\ [][NextLifecycle]_vars

(* A database file that is opened, written, closed and opened again. *)

NextReopen ==
  \/ NextLifecycle
  \/ \E fail \in Failures : NewSQLiteStore("closed", fail)

SpecReopen == InitUnopened /\ [][NextReopen]_vars

(* Every operation under a context that stays live, that is done before the
   call, or (for the calls that read rows, and for a batch in flight) that
   fires while the call is running. *)

Contexts == {"live", "done", "fires"}

CancelBatches ==
  {<<[ID |-> "m", EntryID |-> "", Key |-> "k1", Value |-> 7,
      CreatedAt |-> ZeroTime],
     [ID |-> "n", EntryID |-> "", Key |-> "k1", Value |-> 8,
      CreatedAt |-> ZeroTime]>>}

NextCancel ==
  \/ \E ctx \in {"live", "done"}, id \in {"a", "b"}, d \in Dates :
       SaveEntry(ctx, [CancelledEntry EXCEPT !.ID = id, !.Date = d])
  \/ \E ctx \in Contexts : GetEntryByID(ctx, "a")
  \/ \E ctx \in Contexts :
       GetEntriesByDateRange(ctx, "sleep", date(1), date(MaxDay))
  \/ \E ctx \in {"live", "done"} :
       SaveFinding(ctx, [CancelledFinding EXCEPT !.ID = "a"])
  \/ \E ctx \in Contexts : GetRecentFindings(ctx, 1)
  \/ \E ctx \in {"live", "done"} :
       SaveSummary(ctx, [CancelledSummary EXCEPT !.ID = "a"])
  \/ \E ctx \in Contexts : GetSummaries(ctx, "sleep", date(1), date(MaxDay))
  \/ \E p \in Procs, ctx \in {"live", "done"}, batch \in CancelBatches :
       SaveMetricsBegin(p, ctx, "a", batch)
  \/ \E p \in Procs, fired \in BOOLEAN : SaveMetricsInsert(p, fired)
  \/ \E p \in Procs, fired \in BOOLEAN : SaveMetricsCommit(p, fired)
  \/ \E ctx \in Contexts : GetMetrics(ctx, "sleep", "k1", date(1), date(MaxDay))
  \/ \E ctx \in {"live", "done"} : SaveEmbedding(ctx, "a", "entry", <<1>>)
  \/ \E ctx \in Contexts : SearchSimilar(ctx, <<0>>, "entry", 1)

SpecCancel == Init /\ [][NextCancel]_vars

(* Saves of records whose creation time is absent, ordinary, or in a year
   of five digits, and the reads that decode what was stored. *)

DecodeStamps == {ZeroTime, WholeSecond, FiveDigitYear}

NextDecode ==
  \/ \E id \in {"", "a"}, d \in Dates, t \in DecodeStamps :
       SaveEntry("live", [CancelledEntry EXCEPT !.ID = id, !.Date = d,
                                                !.CreatedAt = t])
  \/ \E id \in LookupIds : GetEntryByID("live", id)
  \/ GetEntriesByDateRange("live", "sleep", date(1), date(MaxDay))
  \/ \E id \in {"", "a"}, t \in DecodeStamps :
       SaveFinding("live", [CancelledFinding EXCEPT !.ID = id, !.CreatedAt = t])
  \/ GetRecentFindings("live", MaxFindings)
  \/ \E id \in {"", "a"}, t \in DecodeStamps :
       SaveSummary("live", [CancelledSummary EXCEPT !.ID = id, !.CreatedAt = t])
  \/ GetSummaries("live", "sleep", date(1), date(MaxDay))

SpecDecode == Init /\ [][NextDecode]_vars

(* SaveEntry calls of several callers, running concurrently. *)

ConcurrentEntryInputs ==
  [ID : {"", "a", "b"}, Date : Dates, Category : {"sleep"},
   InputText : {"in"}, AnalysisText : {""}, CreatedAt : {ZeroTime}]

NextConcurrent ==
  \/ \E c \in Callers, e \in ConcurrentEntryInputs : SaveEntryCall(c, e)
  \/ \E c \in Callers : SaveEntryInsert(c)
  \/ \E id \in {"a", "b"} : GetEntryByID("live", id)

SpecConcurrent == Init /\ [][NextConcurrent]_vars

(* The registry: registrations, lookups, and a caller that changes the map
   it got from All. *)

NextRegistry ==
  \/ \E s \in SubAgents : Register(s)
  \/ All
  \/ \E name \in Categories : Get(name)
  \/ CategoriesCall
  \/ \E name \in Categories, s \in SubAgents, put \in BOOLEAN :
       ChangeAll(name, s, put)

SpecRegistry == Init /\ [][NextRegistry]_vars

(* The relational store, every operation on the four tables, on a reduced
   set of inputs. *)

StoreEntryInputs ==
  [ID : {"", "a"}, Date : Dates, Category : {"sleep"},
   InputText : {"in"}, AnalysisText : {""}, CreatedAt : Timestamps]

StoreFindingInputs ==
  [ID : {"", "a"}, Date : {date(1)}, FindingText : {"ft"},
   Categories : {NilSlice, Slice(<<"sleep", "food">>)},
   CreatedAt : {ZeroTime, SubSecond}]

StoreSummaryInputs ==
  [ID : {"", "a"}, PeriodStart : {date(1)}, PeriodEnd : Dates,
   Category : {"sleep"}, SummaryText : {"st"},
   CreatedAt : {ZeroTime, SubSecond}]

StoreBatches ==
  {<<>>,
   <<[ID |-> "a", EntryID |-> "", Key |-> "k1", Value |-> 7,
      CreatedAt |-> ZeroTime]>>}

Next ==
  \/ \E e \in StoreEntryInputs : SaveEntry("live", e)
  \/ \E from \in Dates : GetEntriesByDateRange("live", "sleep", from, date(MaxDay))
  \/ \E id \in {"a", "zz"} : GetEntryByID("live", id)
  \/ \E f \in StoreFindingInputs : SaveFinding("live", f)
  \/ GetRecentFindings("live", MaxFindings)
  \/ \E s \in StoreSummaryInputs : SaveSummary("live", s)
  \/ GetSummaries("live", "sleep", date(1), date(MaxDay))
  \/ \E p \in Procs, batch \in StoreBatches : SaveMetricsBegin(p, "live", "a", batch)
  \/ \E p \in Procs : SaveMetricsInsert(p, FALSE)
  \/ \E p \in Procs : SaveMetricsCommit(p, FALSE)
  \/ GetMetrics("live", "sleep", "k1", date(1), date(MaxDay))

Spec == Init /\ [][Next]_vars

-----------------------------------------------------------------------------
(* Properties of SaveMetrics and GetMetrics, checked under SpecMetrics *)

\* C1: SaveMetrics is all-or-nothing. When the call returns success, each of
\* the N metrics of the batch is stored as a row of its own (in batch order,
\* with the batch's key, value and owner) and nothing else changed; when it
\* returns an error, none of the rows it had inserted is stored and every
\* table equals what it was before the call returned.
SaveMetricsAllOrNothing ==
  ret.op = "SaveMetrics" =>
    IF ret.err = "nil"
      THEN /\ Len(ret.out) = Len(ret.arg.metrics)
           /\ Cardinality(Range(ret.out)) = Len(ret.arg.metrics)
           /\ \A i \in DOMAIN ret.out :
                /\ ret.out[i] \in metrics
                /\ ret.out[i].key = ret.arg.metrics[i].Key
                /\ ret.out[i].value = ret.arg.metrics[i].Value
                /\ ret.out[i].entry_id = ret.arg.entryID
           /\ metrics = ret.pre.metrics \cup Range(ret.out)
           /\ Range(ret.out) \cap ret.pre.metrics = {}
           /\ Tables = [ret.pre EXCEPT !.metrics = metrics]
      ELSE /\ Tables = ret.pre
           /\ Range(ret.out) \cap metrics = {}

\* Witness of C1: a batch of two whose second insert failed after the first
\* had been executed inside the transaction.
SaveMetricsFailedMidBatch ==
  /\ ret.op = "SaveMetrics"
  /\ ret.err = "constraint"
  /\ Len(ret.arg.metrics) = 2
  /\ Len(ret.out) = 1

\* C2: a GetMetrics call that runs while SaveMetrics transactions are open
\* returns committed rows only: no row it returns was inserted by a
\* transaction still open when it ran, and the rows of an open transaction
\* are not part of the committed table (so a batch that is later rolled
\* back was never visible).
ReadersSeeCommittedOnly ==
  /\ \A p \in Procs : Ids(Range(tx[p].rows)) \cap Ids(metrics) = {}
  /\ (ret.op = "GetMetrics" /\ ret.err = "nil") =>
       \A i \in DOMAIN ret.out :
         /\ \E r \in ret.pre.metrics : ret.out[i] = scanMetric(r)
         /\ \A p \in Procs : ret.out[i].ID \notin Ids(Range(ret.txs[p].rows))

\* Witness of C2: GetMetrics returned a committed metric while a transaction
\* was open that had inserted a row with the same key for the same entry.
ReadDuringOpenBatch ==
  /\ ret.op = "GetMetrics"
  /\ ret.err = "nil"
  /\ Len(ret.out) >= 1
  /\ \E p \in Procs :
       /\ ret.txs[p].pc = "open"
       /\ \E r \in Range(ret.txs[p].rows) :
            r.key = ret.arg.key /\ r.entry_id = ret.out[1].EntryID

\* C3: referential integrity: the owning entry id of every stored metric is
\* the id of a stored entry.
ReferentialIntegrity == \A m \in metrics : m.entry_id \in Ids(entries)

\* Witness of C3: metrics are stored and a SaveMetrics for an entry id that
\* references no entry has just been refused.
OrphanBatchRefused ==
  /\ metrics # {}
  /\ ret.op = "SaveMetrics"
  /\ ret.err = "constraint"
  /\ Len(ret.arg.metrics) >= 1
  /\ ret.arg.entryID \notin Ids(entries)

-----------------------------------------------------------------------------
(* Properties of the single-row saves and the entry reads *)

SavedTable(op) ==
  CASE op = "SaveEntry" -> "entries"
    [] op = "SaveFinding" -> "findings"
    [] op = "SaveSummary" -> "summaries"

SingleRowSaves == {"SaveEntry", "SaveFinding", "SaveSummary"}

\* C4: saves are insert-only. SaveEntry, SaveFinding or SaveSummary called
\* (with a live context) with an id that a stored record of that kind already
\* has fails with a constraint error, and every stored record keeps its
\* field values.
InsertOnly ==
  (/\ ret.op \in SingleRowSaves
   /\ ret.err # "cancelled"
   /\ ret.arg.ID \in Ids(ret.pre[SavedTable(ret.op)])) =>
    /\ ret.err = "constraint"
    /\ Tables = ret.pre

\* Witness of C4: a SaveEntry refused for its id, whose field values differ
\* from those of the stored entry with that id.
ResaveRefused ==
  /\ ret.op = "SaveEntry"
  /\ ret.err = "constraint"
  /\ ret.out \notin entries
  /\ ret.arg.ID \in Ids(entries)

Truncate(t) == [t EXCEPT !.nano = 0]

Same(t) == t

\* What SaveEntry stores, with stamp(t) the stored form of a supplied
\* creation timestamp t.
SaveEntryStores(stamp(_)) ==
  (ret.op = "SaveEntry" /\ ret.err = "nil") =>
    /\ ret.out \notin ret.pre.entries
    /\ entries = ret.pre.entries \cup {ret.out}
    /\ Cardinality(entries) = Cardinality(ret.pre.entries) + 1
    /\ ret.arg.ID = "" => ret.out.id # "" /\ ret.out.id \notin Ids(ret.pre.entries)
    /\ IsZero(ret.arg.CreatedAt) => ~IsZero(ParseRFC3339(ret.out.created_at))
    /\ ret.arg.ID # "" => ret.out.id = ret.arg.ID
    /\ ~IsZero(ret.arg.CreatedAt) =>
         ParseRFC3339(ret.out.created_at) = stamp(ret.arg.CreatedAt)

Kinds == {"entries", "findings", "summaries", "metrics"}

\* C6 as stated: no two stored records share an id, of the same kind or of
\* different kinds.
GloballyUniqueIds ==
  \A k1, k2 \in Kinds : \A r1 \in Tables[k1], r2 \in Tables[k2] :
    r1.id = r2.id => k1 = k2 /\ r1 = r2

\* C6 as amended: no two stored records of the same kind share an id
\* (records of different kinds may).
UniqueIdsPerKind ==
  \A k \in Kinds : \A r1, r2 \in Tables[k] : r1.id = r2.id => r1 = r2

\* Witness of C6: two entries are stored and a finding has the id of one of
\* them.
TwoEntriesAndSharedId ==
  /\ Cardinality(entries) = 2
  /\ Ids(findings) \cap Ids(entries) # {}

\* C7: GetEntriesByDateRange(cat, from, to) with a live context returns no
\* error and exactly the stored entries with category cat and
\* from <= date <= to, each once, in non-increasing date order (the empty
\* sequence when none qualifies, from > to included).
DateRangeExact ==
  (ret.op = "GetEntriesByDateRange" /\ ret.err # "cancelled") =>
    LET match == {r \in entries :
                    /\ r.category = ret.arg.category
                    /\ ret.arg.from.day <= r.date
                    /\ r.date <= ret.arg.to.day}
    IN /\ ret.err = "nil"
       /\ Len(ret.out) = Cardinality(match)
       /\ {ret.out[i] : i \in DOMAIN ret.out} = {scanEntry(r) : r \in match}
       /\ \A i, j \in DOMAIN ret.out :
            i < j => ret.out[i].Date.day >= ret.out[j].Date.day

\* Witness of C7: a range read returned two entries of different dates.
TwoDatesReturned ==
  /\ ret.op = "GetEntriesByDateRange"
  /\ Len(ret.out) = 2
  /\ ret.out[1].Date # ret.out[2].Date

\* C8: GetEntryByID(id) with a live context fails with NotFound exactly when
\* no stored entry has the id; otherwise it returns the stored entry with
\* that id and no error.
NotFoundExactly ==
  (ret.op = "GetEntryByID" /\ ret.err # "cancelled") =>
    /\ ret.err \in {"nil", "notfound"}
    /\ ret.err = "notfound" <=> ret.arg \notin Ids(entries)
    /\ ret.arg \in Ids(entries) =>
         /\ ret.out.ID = ret.arg
         /\ \E r \in entries : r.id = ret.arg /\ ret.out = scanEntry(r)

\* Witness of C8: a lookup missed while other entries were stored.
LookupMissed ==
  /\ ret.op = "GetEntryByID"
  /\ ret.err = "notfound"
  /\ entries # {}

EntryMatches(e, got, stamp(_)) ==
  /\ e.ID # "" => got.ID = e.ID
  /\ got.Date = e.Date
  /\ got.Category = e.Category
  /\ got.InputText = e.InputText
  /\ got.AnalysisText = e.AnalysisText
  /\ ~IsZero(e.CreatedAt) => got.CreatedAt = stamp(e.CreatedAt)

FindingMatches(f, got, stamp(_)) ==
  /\ f.ID # "" => got.ID = f.ID
  /\ got.Date = f.Date
  /\ got.FindingText = f.FindingText
  /\ got.Categories = f.Categories
  /\ ~IsZero(f.CreatedAt) => got.CreatedAt = stamp(f.CreatedAt)

SummaryMatches(s, got, stamp(_)) ==
  /\ s.ID # "" => got.ID = s.ID
  /\ got.PeriodStart = s.PeriodStart
  /\ got.PeriodEnd = s.PeriodEnd
  /\ got.Category = s.Category
  /\ got.SummaryText = s.SummaryText
  /\ ~IsZero(s.CreatedAt) => got.CreatedAt = stamp(s.CreatedAt)

\* After a successful save, what every corresponding get returns, with
\* stamp(t) the value read back for a supplied creation timestamp t.
RoundTrip(stamp(_)) ==
  /\ (ret.op = "SaveEntry" /\ ret.err = "nil") =>
       /\ \A res \in QueryEntryByID(ret.out.id) :
            res.err = "nil" /\ EntryMatches(ret.arg, res.out, stamp)
       /\ \A out \in QueryEntriesByDateRange(ret.arg.Category, ret.arg.Date,
                                             ret.arg.Date) :
            \E i \in DOMAIN out :
              out[i].ID = ret.out.id /\ EntryMatches(ret.arg, out[i], stamp)
  /\ (ret.op = "SaveFinding" /\ ret.err = "nil") =>
       \A out \in QueryRecentFindings(Cardinality(findings)) :
         \E i \in DOMAIN out :
           out[i].ID = ret.out.id /\ FindingMatches(ret.arg, out[i], stamp)
  /\ (ret.op = "SaveSummary" /\ ret.err = "nil") =>
       \A out \in QuerySummaries(ret.arg.Category, ret.arg.PeriodStart,
                                 ret.arg.PeriodEnd) :
         \E i \in DOMAIN out :
           out[i].ID = ret.out.id /\ SummaryMatches(ret.arg, out[i], stamp)

MetricRoundTrip ==
  (ret.op = "SaveMetrics" /\ ret.err = "nil") =>
    \A i \in DOMAIN ret.arg.metrics :
      LET m == ret.arg.metrics[i]
      IN \A e \in {x \in entries : x.id = ret.arg.entryID} :
           \A out \in QueryMetrics(e.category, m.Key, date(e.date), date(e.date)) :
             \E j \in DOMAIN out :
               /\ out[j].ID = ret.out[i].id
               /\ m.ID # "" => out[j].ID = m.ID
               /\ out[j].EntryID = ret.arg.entryID
               /\ out[j].Key = m.Key
               /\ out[j].Value = m.Value
               /\ ~IsZero(m.CreatedAt) => out[j].CreatedAt = m.CreatedAt

-----------------------------------------------------------------------------
(* Properties of GetRecentFindings, checked under SpecFindings *)

Min(a, b) == IF a <= b THEN a ELSE b

\* C11: GetRecentFindings(n), for a row count n >= 0, returns min(n, total)
\* findings, each a stored finding returned once, in non-increasing date
\* order, and every returned finding has a date greater than or equal to the
\* date of every stored finding that was not returned.
RecentFindingsMostRecent ==
  (ret.op = "GetRecentFindings" /\ ret.err = "nil" /\ ret.arg >= 0) =>
    LET out == ret.out
        stored == {scanFinding(r) : r \in findings}
        left == stored \ Range(out)
    IN /\ Len(out) <= ret.arg
       /\ Len(out) = Min(ret.arg, Cardinality(findings))
       /\ Range(out) \subseteq stored
       /\ Cardinality(Range(out)) = Len(out)
       /\ \A i, j \in DOMAIN out : i < j => out[i].Date.day >= out[j].Date.day
       /\ \A i \in DOMAIN out : \A f \in left : out[i].Date.day >= f.Date.day

\* Witness of C11: with two findings of different dates stored, a call with
\* n = 1 returned one finding and left the older one out.
RecentFindingLeftOut ==
  /\ ret.op = "GetRecentFindings"
  /\ ret.err = "nil"
  /\ ret.arg = 1
  /\ Len(ret.out) = 1
  /\ \E r \in findings : r.date < ret.out[1].Date.day

-----------------------------------------------------------------------------
(* Properties of the summaries, checked under SpecSummaries *)

\* C12: GetSummaries(category, from, to) returns exactly the stored
\* summaries whose category equals the argument and whose period lies within
\* the window (from <= period start and period end <= to), each once, in
\* non-increasing period-start order.
SummariesWithinWindow ==
  (ret.op = "GetSummaries" /\ ret.err = "nil") =>
    LET out == ret.out
        within == {r \in summaries :
                     /\ r.category = ret.arg.category
                     /\ ret.arg.from.day <= r.period_start
                     /\ r.period_end <= ret.arg.to.day}
    IN /\ Range(out) = {scanSummary(r) : r \in within}
       /\ Len(out) = Cardinality(within)
       /\ \A i, j \in DOMAIN out :
            i < j => out[i].PeriodStart.day >= out[j].PeriodStart.day

\* Witness of C12: a call returned a summary while a stored summary of the
\* same category, whose period extends outside the window, was left out.
SummaryOutsideWindowLeftOut ==
  /\ ret.op = "GetSummaries"
  /\ ret.err = "nil"
  /\ Len(ret.out) = 1
  /\ \E r \in summaries :
       /\ r.category = ret.arg.category
       /\ r.period_start <= ret.arg.to.day
       /\ r.period_end > ret.arg.to.day

\* C13: there is one summary per (category, period): no two stored
\* summaries have the same category, period start and period end.
OneSummaryPerPeriod ==
  \A s1, s2 \in summaries :
    (/\ s1.category = s2.category
     /\ s1.period_start = s2.period_start
     /\ s1.period_end = s2.period_end) => s1 = s2

-----------------------------------------------------------------------------
(* Properties of GetMetrics, checked under SpecMetrics *)

\* The date of the entry that owns a returned metric.
OwnerDate(m) == (CHOOSE e \in entries : e.id = m.EntryID).date

\* C14: GetMetrics(category, key, from, to) returns exactly the stored
\* metrics whose key equals the argument and whose owning entry has the
\* category of the argument and a date within [from, to], each once, ordered
\* by the owning entry's date in non-increasing order.
MetricsOfWindow ==
  (ret.op = "GetMetrics" /\ ret.err = "nil") =>
    LET out == ret.out
        matching == {m \in metrics :
                       /\ m.key = ret.arg.key
                       /\ \E e \in entries :
                            /\ e.id = m.entry_id
                            /\ e.category = ret.arg.category
                            /\ ret.arg.from.day <= e.date
                            /\ e.date <= ret.arg.to.day}
    IN /\ Range(out) = {scanMetric(m) : m \in matching}
       /\ Len(out) = Cardinality(matching)
       /\ \A i, j \in DOMAIN out : i < j => OwnerDate(out[i]) >= OwnerDate(out[j])

\* Witness of C14: a call returned two metrics owned by entries of different
\* dates.
MetricsOfTwoDatesReturned ==
  /\ ret.op = "GetMetrics"
  /\ ret.err = "nil"
  /\ Len(ret.out) = 2
  /\ OwnerDate(ret.out[1]) > OwnerDate(ret.out[2])

\* A second witness of C14: a call returned a metric while a metric of
\* another key, owned by an entry that matches, was left out.
MetricOfOtherKeyLeftOut ==
  /\ ret.op = "GetMetrics"
  /\ ret.err = "nil"
  /\ Len(ret.out) = 1
  /\ \E m \in metrics : m.key # ret.arg.key /\ m.entry_id = ret.out[1].EntryID

-----------------------------------------------------------------------------
(* Properties of the vector index, checked under SpecEmbeddings *)

\* C15: a SaveEmbedding call that reached the index with a vector whose
\* length differs from the embedding dimension fails with a serialization
\* error and stores nothing; with a vector of exactly the embedding dimension
\* it succeeds and adds one row holding the call's tags and the vector
\* unchanged; no vector of another length is ever in the index.
SaveEmbeddingChecksDimension ==
  /\ \A i \in DOMAIN vec_embeddings :
       Len(DeserializeFloat32(vec_embeddings[i].embedding)) = EmbeddingDimension
  /\ (ret.op = "SaveEmbedding" /\ ret.err \notin {"cancelled", "closed", "panic"}) =>
       IF Len(ret.arg.embedding) # EmbeddingDimension
         THEN /\ ret.err = "serialization"
              /\ Tables = ret.pre
         ELSE /\ ret.err = "nil"
              /\ Len(vec_embeddings) = Len(ret.pre.vec_embeddings) + 1
              /\ SubSeq(vec_embeddings, 1, Len(ret.pre.vec_embeddings))
                   = ret.pre.vec_embeddings
              /\ LET row == vec_embeddings[Len(vec_embeddings)]
                 IN /\ row.source_id = ret.arg.sourceID
                    /\ row.source_type = ret.arg.sourceType
                    /\ DeserializeFloat32(row.embedding) = ret.arg.embedding
              /\ Tables = [ret.pre EXCEPT !.vec_embeddings = vec_embeddings]

\* Witness of C15: a vector longer than the embedding dimension was refused
\* while the index already held a vector.
LongVectorRefused ==
  /\ ret.op = "SaveEmbedding"
  /\ ret.err = "serialization"
  /\ Len(ret.arg.embedding) > EmbeddingDimension
  /\ Len(vec_embeddings) > 0

\* The stored vectors a result of SearchSimilar can come from: those whose
\* source id and distance to the query are the result's.
SourcesOf(result) ==
  {i \in DOMAIN vec_embeddings :
     /\ vec_embeddings[i].source_id = result.Entry.ID
     /\ Distance(vec_embeddings[i].embedding,
                 SerializeFloat32(ret.arg.embedding)) = result.Distance}

TaggedWith(sourceType) ==
  {i \in DOMAIN vec_embeddings : vec_embeddings[i].source_type = sourceType}

\* C16: SearchSimilar(query, sourceType, k) returns its results in
\* non-decreasing distance order, and no stored vector tagged with sourceType
\* that was left out is strictly closer to the query than a returned one.
SearchSimilarNearest ==
  (ret.op = "SearchSimilar" /\ ret.err = "nil") =>
    LET out == ret.out
        returned == UNION {SourcesOf(out[n]) : n \in DOMAIN out}
        left == TaggedWith(ret.arg.sourceType) \ returned
    IN /\ \A m, n \in DOMAIN out : m < n => out[m].Distance <= out[n].Distance
       /\ \A i \in left : \A n \in DOMAIN out :
            Distance(vec_embeddings[i].embedding,
                     SerializeFloat32(ret.arg.embedding)) >= out[n].Distance

\* C17: the number of results of SearchSimilar(query, sourceType, k) is
\* min(k, m), where m is the number of stored vectors tagged with exactly
\* sourceType; with zero matches the result is empty and there is no error.
SearchSimilarCount ==
  /\ (ret.op = "SearchSimilar" /\ ret.err = "nil") =>
       Len(ret.out) = Min(ret.arg.limit, Cardinality(TaggedWith(ret.arg.sourceType)))
  /\ (/\ ret.op = "SearchSimilar"
      /\ ret.err \notin {"cancelled", "closed", "panic"}
      /\ Len(ret.arg.embedding) = EmbeddingDimension
      /\ ret.arg.limit >= 0
      /\ TaggedWith(ret.arg.sourceType) = {}) =>
       ret.err = "nil" /\ ret.out = <<>>

\* C18: SearchSimilar(query, T, k) never returns a result that comes from an
\* embedding saved under a source type other than T: every result is that of
\* a stored vector tagged T, and when no stored vector is tagged T the result
\* is empty and there is no error.
SourceTypeIsolation ==
  /\ (ret.op = "SearchSimilar" /\ ret.err = "nil") =>
       /\ \A n \in DOMAIN ret.out :
            SourcesOf(ret.out[n]) \cap TaggedWith(ret.arg.sourceType) # {}
       /\ Len(ret.out) <= Cardinality(TaggedWith(ret.arg.sourceType))
  /\ (/\ ret.op = "SearchSimilar"
      /\ ret.err \notin {"cancelled", "closed", "panic"}
      /\ Len(ret.arg.embedding) = EmbeddingDimension
      /\ ret.arg.limit >= 0
      /\ TaggedWith(ret.arg.sourceType) = {}) =>
       ret.err = "nil" /\ ret.out = <<>>

\* Witness of C18: with only "entry"-tagged embeddings stored, one of them
\* owned by a stored entry, a search under "summary" returned an empty result
\* and no error.
SummarySearchAmongEntryVectors ==
  /\ ret.op = "SearchSimilar"
  /\ ret.err = "nil"
  /\ ret.arg.sourceType = "summary"
  /\ ret.arg.limit > 0
  /\ ret.out = <<>>
  /\ \E i \in DOMAIN vec_embeddings :
       /\ vec_embeddings[i].source_type = "entry"
       /\ \E e \in entries : e.id = vec_embeddings[i].source_id
  /\ \A i \in DOMAIN vec_embeddings : vec_embeddings[i].source_type = "entry"

-----------------------------------------------------------------------------
(* Properties of the store's lifecycle, checked under SpecLifecycle *)

SaveOps == {"SaveEntry", "SaveFinding", "SaveSummary", "SaveMetrics", "SaveEmbedding"}

ReadOps == {"GetEntriesByDateRange", "GetEntryByID", "GetRecentFindings",
            "GetSummaries", "GetMetrics", "SearchSimilar"}

\* C19: only an Open store accepts operations. Every save, get or search
\* invoked on an Unopened or on a Closed store returns a usage error (the
\* error of a store that is not open), returns no data and changes no
\* persisted state; and a store that was Closed when a call was made on it
\* is Closed afterwards (nothing leads from Closed back to Open).
OnlyOpenAcceptsOperations ==
  /\ (ret.op \in SaveOps \cup ReadOps /\ ret.on # "open") =>
       /\ ret.err = "closed"
       /\ ret.op \in ReadOps => ret.out \in {ZeroEntry, <<>>}
       /\ Tables = ret.pre
  /\ ret.on = "closed" => db = "closed"
  /\ (ret.op \in SaveOps \cup ReadOps /\ ret.on = "open") => ret.err # "closed"

\* C20: Close called on an Open store, whatever succeeded or failed before,
\* returns no error, leaves the store Closed and the persisted tables as they
\* were; a second Close, on a Closed store, returns no error either and
\* changes nothing.
CloseIsSafe ==
  (ret.op = "Close" /\ ret.on \in {"open", "closed"}) =>
    /\ ret.err = "nil"
    /\ db = "closed"
    /\ Tables = ret.pre

\* Witness of C20: a second Close returned on a store that had been closed
\* with rows in it.
ClosedTwice ==
  /\ ret.op = "Close"
  /\ ret.on = "closed"
  /\ ret.err = "nil"
  /\ entries # {}
  /\ Len(vec_embeddings) > 0

\* A second witness of C20: Close returned on an Open store while a
\* SaveMetrics batch was in flight.
ClosedDuringBatch ==
  /\ ret.op = "Close"
  /\ ret.on = "open"
  /\ \E p \in Procs : tx[p].pc = "open" /\ Len(tx[p].rows) > 0


\* C21: NewSQLiteStore succeeds or fails completely. When no step fails the
\* caller gets a nil error and an open store that holds the handle. When
\* sql.Open or either part of the schema fails, the error is a connection
\* error, no handle stays held (none was acquired, or the acquired one was
\* released), and the caller has no more of a store than before the call.
OpenAllOrNothing ==
  ret.op = "NewSQLiteStore" =>
    IF ret.out.failed = "none"
      THEN /\ ret.err = "nil"
           /\ ret.out.handle = "held"
           /\ db = "open"
      ELSE /\ ret.err = "connection"
           /\ ret.out.handle # "held"
           /\ db = ret.on
           /\ db # "open"

\* Witness of C21: the vec schema failed after the handle was acquired and
\* the core schema applied, and the handle was released.
VecSchemaFailedHandleReleased ==
  /\ ret.op = "NewSQLiteStore"
  /\ ret.out.failed = "vec schema"
  /\ ret.out.handle = "released"
  /\ ret.err = "connection"


\* C22: applying the schema is idempotent. NewSQLiteStore on a database file
\* that already has the schema leaves every stored entry, finding, summary,
\* metric and embedding as it was, whether or not a step of it fails, and so
\* does Close: a store closed and opened again on the same file holds the
\* rows it held before the close, which every get reads.
SchemaIdempotent ==
  ret.op \in {"Close", "NewSQLiteStore"} => Tables = ret.pre

\* Witness of C22: a store opened again after a close, with rows of every
\* table stored before the close.
ReopenedWithData ==
  /\ ret.op = "NewSQLiteStore"
  /\ ret.on = "closed"
  /\ ret.err = "nil"
  /\ db = "open"
  /\ entries # {}
  /\ findings # {}
  /\ summaries # {}
  /\ metrics # {}
  /\ vec_embeddings # <<>>


\* C23: the store is append-only. In every step, whatever operation takes it
\* (a save that succeeds or fails, a get, a rolled-back batch, Close, opening
\* the file again), every stored entry, finding, summary and metric is still
\* stored with the same field values, and the stored embeddings are still
\* there, in place and unchanged; so no table ever loses or changes a row.
AppendOnly ==
  [][/\ entries \subseteq entries'
     /\ findings \subseteq findings'
     /\ summaries \subseteq summaries'
     /\ metrics \subseteq metrics'
     /\ Len(vec_embeddings) <= Len(vec_embeddings')
     /\ SubSeq(vec_embeddings', 1, Len(vec_embeddings)) = vec_embeddings]_vars

\* Witness of C23: a store that holds rows of every kind after a batch was
\* refused and rolled back on it.
RowsKeptAfterRollback ==
  /\ ret.op = "SaveMetrics"
  /\ ret.err = "constraint"
  /\ entries # {}
  /\ findings # {}
  /\ summaries # {}
  /\ metrics # {}
  /\ vec_embeddings # <<>>
  /\ db = "open"
  /\ ret.on = "open"


\* C24: every operation honours cancellation. A call that returns the
\* cancellation error returns no data with it (a read returns no rows, a
\* lookup the zero Entry) and leaves the store as it was; a SaveMetrics
\* cancelled after some of its inserts leaves none of its batch stored.
CancelledReturnsNothing ==
  ret.err = "cancelled" =>
    /\ ret.op \in ReadOps \ {"GetEntryByID"} => ret.out = <<>>
    /\ ret.op = "GetEntryByID" => ret.out = ZeroEntry
    /\ Tables = ret.pre
    /\ ret.op = "SaveMetrics" => Range(ret.out) \cap metrics = {}


\* C25: SaveMetrics with a non-empty batch for an entry id that no stored
\* entry has (and a context that is not cancelled) returns a constraint error
\* and stores nothing: the store is as before the call and no stored metric
\* names that entry id. Nothing of such a batch is kept for later either: when
\* SaveEntry creates an entry, no stored metric already names its id.
MissingOwnerRefused ==
  /\ (/\ ret.op = "SaveMetrics"
      /\ ret.arg.metrics # <<>>
      /\ ret.arg.entryID \notin Ids(entries)
      /\ ret.err # "cancelled") =>
       /\ ret.err = "constraint"
       /\ Tables = ret.pre
       /\ \A m \in metrics : m.entry_id # ret.arg.entryID
  /\ (/\ ret.op = "SaveEntry"
      /\ ret.err = "nil"
      /\ ret.out.id \notin Ids(ret.pre.entries)) =>
       \A m \in metrics : m.entry_id # ret.out.id

\* Witness of C25: a batch of two metrics refused for the entry id "b" that
\* no stored entry has, on a store that holds another entry, and no metric
\* stored.
BatchOfTwoForMissingEntryRefused ==
  /\ ret.op = "SaveMetrics"
  /\ ret.err = "constraint"
  /\ Len(ret.arg.metrics) = 2
  /\ ret.arg.entryID = "b"
  /\ "b" \notin Ids(entries)
  /\ "a" \in Ids(entries)
  /\ metrics = {}


EmbeddingSaved(before, row) ==
  /\ vec_embeddings = Append(before.vec_embeddings, row)
  /\ [Tables EXCEPT !.vec_embeddings = before.vec_embeddings] = before

RowSaved(table, before, row) ==
  /\ row \notin before[table]
  /\ Tables = [before EXCEPT ![table] = @ \cup {row}]

\* C26: every single-row write is one atomic unit of work. A SaveEntry,
\* SaveFinding, SaveSummary or SaveEmbedding that returns no error has added
\* exactly one record, the complete row it wrote, and left every other record
\* of every table as it was; one that returns an error (a constraint or
\* serialization error, a cancelled context, a store that is not open) has
\* left the store as it was before the call.
SingleRowAtomic ==
  ret.op \in SingleRowSaves \cup {"SaveEmbedding"} =>
    IF ret.err = "nil"
      THEN IF ret.op = "SaveEmbedding"
             THEN EmbeddingSaved(ret.pre, ret.out)
             ELSE RowSaved(SavedTable(ret.op), ret.pre, ret.out)
      ELSE Tables = ret.pre

\* Witness of C26: a SaveEmbedding refused for the length of its vector, on
\* a store that holds an embedding and rows of the three tables.
EmbeddingRefusedOnFilledStore ==
  /\ ret.op = "SaveEmbedding"
  /\ ret.err = "serialization"
  /\ vec_embeddings # <<>>
  /\ entries # {}
  /\ findings # {}
  /\ summaries # {}


\* C27 as stated: GetRecentFindings called with limit <= 0 returns no rows
\* and no error, whatever findings are stored.
NonPositiveLimitNoRows ==
  (ret.op = "GetRecentFindings" /\ ret.arg <= 0) =>
    ret.err = "nil" /\ ret.out = <<>>

\* C27, amended: GetRecentFindings called with limit 0 returns no rows and
\* no error, whatever findings are stored; called with a negative limit it
\* returns no error and every stored finding once, most recent first.
ZeroLimitNoRowsNegativeAll ==
  (ret.op = "GetRecentFindings" /\ ret.arg <= 0) =>
    /\ ret.err = "nil"
    /\ IF ret.arg = 0
         THEN ret.out = <<>>
         ELSE /\ Range(ret.out) = {scanFinding(r) : r \in findings}
              /\ Len(ret.out) = Cardinality(findings)
              /\ \A i, j \in DOMAIN ret.out :
                   i < j => ret.out[i].Date.day >= ret.out[j].Date.day

\* Witness of C27: a call with limit -1 that returned two findings.
NegativeLimitReturnedAll ==
  /\ ret.op = "GetRecentFindings"
  /\ ret.arg = -1
  /\ ret.err = "nil"
  /\ Len(ret.out) = 2


Decoded(table, record) ==
  \A r \in table :
    r.id = record.ID => timeParseRFC3339(r.created_at).err = "nil"

\* C28: no error is swallowed. A get that returns no error returns only
\* records whose stored creation time was decoded without a failure (so no
\* returned field is a zero value put in place of a value that failed to
\* decode).
DecodeErrorsReturned ==
  ret.err = "nil" =>
    /\ ret.op = "GetEntryByID" => Decoded(entries, ret.out)
    /\ ret.op = "GetEntriesByDateRange" =>
         \A i \in DOMAIN ret.out : Decoded(entries, ret.out[i])
    /\ ret.op = "GetRecentFindings" =>
         \A i \in DOMAIN ret.out : Decoded(findings, ret.out[i])
    /\ ret.op = "GetSummaries" =>
         \A i \in DOMAIN ret.out : Decoded(summaries, ret.out[i])


\* The results GetEntriesByDateRange can return for the arguments of the last
\* call, in the state that call left.
SameCallAgain ==
  QueryEntriesByDateRange(ret.arg.category, ret.arg.from, ret.arg.to)

\* C29 as stated: two GetEntriesByDateRange calls with the same arguments on
\* the same store state return the same sequence, entries that share a date
\* in the same relative order, whatever the order in which they were saved.
SameSequenceAgain ==
  (ret.op = "GetEntriesByDateRange" /\ ret.err = "nil") =>
    \A again \in SameCallAgain : again = ret.out

\* C29, amended: two GetEntriesByDateRange calls with the same arguments on
\* the same store state return the same entries, each once, and the same
\* sequence of dates (non-increasing); only the relative order of entries
\* that share a date may differ between them.
SameSequenceUpToTies ==
  (ret.op = "GetEntriesByDateRange" /\ ret.err = "nil") =>
    \A again \in SameCallAgain :
      /\ Len(again) = Len(ret.out)
      /\ Range(again) = Range(ret.out)
      /\ Cardinality(Range(again)) = Len(again)
      /\ \A i \in DOMAIN again : again[i].Date = ret.out[i].Date

\* Witness of C29: a range read returned two entries that share a date.
TwoEntriesOfOneDateReturned ==
  /\ ret.op = "GetEntriesByDateRange"
  /\ ret.err = "nil"
  /\ Len(ret.out) = 2
  /\ ret.out[1].Date = ret.out[2].Date
  /\ ret.out[1].ID # ret.out[2].ID


\* C30: every stored summary has a period start that is not later than its
\* period end.
StoredPeriodsOrdered == \A s \in summaries : s.period_start <= s.period_end


-----------------------------------------------------------------------------
(* Further properties of the search, the saves and the reads *)

\* C31: every result of SearchSimilar pairs a stored entry with a stored
\* embedding of that entry: the result's Entry is a stored entry as read
\* back, and some stored embedding has that entry's id as its source id, the
\* requested source type and the result's distance. An embedding whose source
\* id is the id of no stored entry appears in no result.
ResultsPairEntryAndEmbedding ==
  ret.op = "SearchSimilar" =>
    \A n \in DOMAIN ret.out :
      /\ \E e \in entries : scanEntry(e) = ret.out[n].Entry
      /\ \E i \in SourcesOf(ret.out[n]) :
           /\ vec_embeddings[i].source_type = ret.arg.sourceType
           /\ vec_embeddings[i].source_id \in Ids(entries)

\* Witness of C31: a search returned a result while an embedding of the
\* requested type whose source id is no entry's id was stored.
ResultBesideOrphanEmbedding ==
  /\ ret.op = "SearchSimilar"
  /\ ret.err = "nil"
  /\ Len(ret.out) >= 1
  /\ \E i \in DOMAIN vec_embeddings :
       /\ vec_embeddings[i].source_type = ret.arg.sourceType
       /\ vec_embeddings[i].source_id \notin Ids(entries)


\* Two SaveEntry calls with the same caller-supplied id that ran concurrently:
\* both have returned, and each began when no entry with the id was stored.
RanConcurrently(c, d) ==
  /\ c # d
  /\ calls[c].pc = "returned"
  /\ calls[d].pc = "returned"
  /\ calls[c].arg.ID # ""
  /\ calls[c].arg.ID = calls[d].arg.ID
  /\ calls[c].arg.ID \notin Ids(calls[c].before)
  /\ calls[d].arg.ID \notin Ids(calls[d].before)

\* C32: of two SaveEntry calls with the same caller-supplied id that run
\* concurrently, in every interleaving exactly one returns no error and the
\* other a constraint error, and the one stored entry with that id is the row
\* of the call that returned no error.
ConcurrentSameIdOneWins ==
  \A c, d \in Callers :
    RanConcurrently(c, d) =>
      /\ {calls[c].err, calls[d].err} = {"nil", "constraint"}
      /\ \A w \in {c, d} :
           calls[w].err = "nil" =>
             {e \in entries : e.id = calls[w].arg.ID} = {calls[w].row}

\* Witness of C32: two concurrent calls with the id "a" and different dates
\* have returned, the first with no error and the second with a constraint
\* error.
ConcurrentSavesDiffer ==
  /\ RanConcurrently("first", "second")
  /\ calls["first"].arg.ID = "a"
  /\ calls["first"].arg.Date # calls["second"].arg.Date
  /\ calls["first"].err = "nil"
  /\ calls["second"].err = "constraint"


\* C33: read operations leave the persisted state unchanged. When a get or a
\* search returns, with or without an error (not found, a cancelled context,
\* a refused query, a store that is not open), the stored entries, findings,
\* summaries, metrics and embeddings are those stored before the call.
ReadsChangeNothing == ret.op \in ReadOps => Tables = ret.pre

\* Witness of C33: a lookup missed on a store that holds entries, findings,
\* summaries and embeddings.
LookupMissedOnFilledStore ==
  /\ ret.op = "GetEntryByID"
  /\ ret.err = "notfound"
  /\ entries # {}
  /\ findings # {}
  /\ summaries # {}
  /\ vec_embeddings # <<>>


\* The errors of an operation that failed on an open store.
OperationErrors == {"notfound", "constraint", "serialization", "query", "cancelled"}

\* C34: a failed operation does not change the lifecycle state. In the step
\* in which a save, get or search returns an error (not found, a constraint
\* violation, a dimension mismatch, a refused query, a cancelled or rolled
\* back call), the store stays as open or closed as it was, every table
\* stays as it was, and a transaction that ended in it is idle again and
\* holds no lock, so that a later valid operation meets the store it would
\* have met without the failed call.
FailureKeepsLifecycle ==
  [][ret'.err \in OperationErrors =>
       /\ db' = db
       /\ Tables' = Tables
       /\ \A p \in Procs :
            tx[p].pc = "open" /\ tx'[p].pc # "open" => tx'[p] = IdleTx]_vars

\* Witness of C34: a SaveMetrics batch for a missing entry was refused and
\* rolled back, and the store, which holds an entry, is open with no
\* transaction left.
OpenAfterRolledBackBatch ==
  /\ ret.op = "SaveMetrics"
  /\ ret.err = "constraint"
  /\ ret.arg.entryID = "zz"
  /\ db = "open"
  /\ entries # {}
  /\ \A p \in Procs : tx[p] = IdleTx


\* C35: SaveMetrics called with an empty batch (and a context that is not
\* cancelled) returns no error and leaves the store unchanged, whatever the
\* entry id, the id of no stored entry included.
EmptyBatchSucceeds ==
  (/\ ret.op = "SaveMetrics"
   /\ ret.arg.metrics = <<>>
   /\ ret.err # "cancelled") =>
    /\ ret.err = "nil"
    /\ Tables = ret.pre

\* Witness of C35: an empty batch for the id "b" of no stored entry returned
\* no error, on a store that holds an entry and a metric.
EmptyBatchForMissingEntry ==
  /\ ret.op = "SaveMetrics"
  /\ ret.arg.metrics = <<>>
  /\ ret.arg.entryID = "b"
  /\ ret.err = "nil"
  /\ "b" \notin Ids(entries)
  /\ metrics # {}


-----------------------------------------------------------------------------
(* Properties of the category registry, checked under SpecRegistry *)

\* C36: the registry maps each category name to at most one sub-agent. After
\* Register(s), Get(s.Category()) returns s, and the registry is the one
\* before the call with s put under that name, so that s replaces a
\* sub-agent registered under the name before and every other name keeps
\* its own. Get of a name that no sub-agent was registered under returns
\* nil. The map All returns holds the pairs of the registry, and it is a
\* copy: whatever the caller changes in it, Get and Categories return what
\* they returned before the change.
RegistryIsAMapAndAllACopy ==
  /\ ret.op = "Register" =>
       /\ GetResult(ret.arg.category) = ret.arg
       /\ registry = MapPut(ret.out, ret.arg.category, ret.arg)
  /\ ret.op = "Get" =>
       /\ GetResult(ret.arg) = ret.out
       /\ ret.arg \notin DOMAIN registry => ret.out = NilSubAgent
       /\ ret.arg \in DOMAIN registry => ret.out.category = ret.arg
  /\ ret.op = "All" => ret.out = registry
  /\ ret.op = "Categories" =>
       /\ Range(ret.out) = DOMAIN registry
       /\ Len(ret.out) = Cardinality(DOMAIN registry)
       /\ ret.out \in CategoriesResults

\* Witness of C36: the sub-agent y was registered under "sleep" in place of
\* x, while the caller holds a map it got from All that differs from the
\* registry.
ReplacedAndCopyChanged ==
  /\ ret.op = "Register"
  /\ ret.arg = [impl |-> "y", category |-> "sleep"]
  /\ "sleep" \in DOMAIN ret.out
  /\ ret.out["sleep"] = [impl |-> "x", category |-> "sleep"]
  /\ all.ref = "out"
  /\ all.out # registry

====
